---- MODULE Spec2Model ----
(***************************************************************************)
(* A model of mcp-filesystem: the ignore matcher (internal/gitignore), the *)
(* recursive file watcher (internal/watcher), the resource manager         *)
(* (internal/resources) and the server's synchronizer (internal/server).   *)
(*                                                                         *)
(* Strings the code inspects character by character (paths, ignore         *)
(* patterns) are sequences of one-character strings.  A filesystem entry   *)
(* is identified by the sequence of its name components below the          *)
(* workspace root; AbsPath gives the absolute path string the code sees.   *)
(***************************************************************************)
EXTENDS Naturals, Sequences, FiniteSets, TLC

VARIABLES
    workspacePath,    \* Matcher.workspacePath / FileWatcher.workspacePath
    hasGitIgnore,     \* Matcher.hasGitIgnore
    ignore,           \* Matcher.ignore: the relative paths the compiled .gitignore matches
    fs,               \* the entries that exist below the workspace root
    fsBudget,         \* filesystem changes the environment may still make
    osWatches,        \* fsnotify.Watcher: the directories it holds a watch for
    rawq,             \* fsnotify.Watcher.Events: notifications not yet read
    watchedDirs,      \* FileWatcher.watchedDirs
    addCalls,         \* history: the directories fsnotify Add was called for
    mainPc,           \* where main / MCPServer.Start stands
    startLog,         \* history: the start-up steps in the order they ran
    initialFiles,     \* what GetInitialFiles returned
    pumpPc,           \* FileWatcher.eventLoop: "off", "idle" or "sending"
    pumpSend,         \* the FileEvent the pump is blocked sending on fw.events
    consPc,           \* MCPServer.processFileEvents: "off" or "run"
    registeredFiles,  \* MCPServer.registeredFiles
    registry,         \* the MCP server's resources: the URIs it holds
    faults,           \* history: the kinds of failure met ("walk", "add", "registry")
    pumpLog,          \* history: the pump's last notification and what it sent (ClassifySpec only)
    hist,             \* history: the last synchronizer calls (SyncSpec only)
    ctxDone,          \* MCPServer.ctx: cancelFunc has been called
    fwDone,           \* FileWatcher.done is closed
    osClosed,         \* fsnotify.Watcher is closed (its Events channel with it)
    eventsClosed,     \* FileWatcher.events is closed
    stopPc,           \* where MCPServer.Stop stands
    readLog,          \* history: the notifications the pump read, in order (RunSpec only)
    handled,          \* history: the FileEvents handleFileEvent ran on, in order (RunSpec only)
    mu,               \* MCPServer.mu: "free", "rlocked" or "locked"
    fwMu,             \* FileWatcher.mu: "free" or "locked"
    syncProc,         \* the call of registerFile/updateFile/unregisterFile under way (LockSpec only)
    watchProc,        \* the call of startWatching/stopWatching under way (LockSpec only)
    sigPending,       \* main's sigChan holds a SIGINT / SIGTERM
    parentDead,       \* the parent process has terminated (os.Getppid changed)
    procDone,         \* main's done channel is closed
    panicked,         \* the process panicked: close of a closed channel
    sigPc,            \* the signal-handling goroutine of main
    monPc,            \* monitorParentProcess
    stopCalls         \* history: how often MCPServer.Stop was called

vars == <<workspacePath, hasGitIgnore, ignore, fs, fsBudget, osWatches, rawq,
          watchedDirs, addCalls, mainPc, startLog, initialFiles, pumpPc,
          pumpSend, consPc, registeredFiles, registry, faults, pumpLog, hist,
          ctxDone, fwDone, osClosed, eventsClosed, stopPc, readLog, handled,
          mu, fwMu, syncProc, watchProc,
          sigPending, parentDead, procDone, panicked, sigPc, monPc, stopCalls>>

-----------------------------------------------------------------------------
(* Bounds *)

\* The number of filesystem changes the environment makes after start-up began.
MaxFsOps == 2

-----------------------------------------------------------------------------
(* Strings *)

Separator == "/"

HasPrefix(s, prefix) ==
    /\ Len(s) >= Len(prefix)
    /\ SubSeq(s, 1, Len(prefix)) = prefix

\* filepath.ToSlash: every Separator becomes a slash.
ToSlash(s) == [i \in DOMAIN s |-> IF s[i] = Separator THEN "/" ELSE s[i]]

\* The index of the last Separator of s, 0 when there is none.
LastSep(s) ==
    LET idx == {i \in DOMAIN s : s[i] = Separator}
    IN  IF idx = {} THEN 0 ELSE CHOOSE i \in idx : \A j \in idx : j <= i

\* filepath.Base of a cleaned path: what follows the last separator.
Base(path) ==
    IF path = <<>> THEN <<".">>
    ELSE IF LastSep(path) = Len(path) THEN <<Separator>>
    ELSE SubSeq(path, LastSep(path) + 1, Len(path))

\* filepath.Rel(basepath, targpath) for a target at or below basepath.
Rel(basepath, targpath) ==
    IF targpath = basepath THEN <<".">>
    ELSE SubSeq(targpath, Len(basepath) + 2, Len(targpath))

fileURIPrefix == <<"f", "i", "l", "e", ":", "/", "/">>

-----------------------------------------------------------------------------
(* The entries of the modelled workspace *)

nEnv  == <<".", "e", "n", "v">>
nD    == <<"d">>
nF    == <<"f">>
nG    == <<"g">>
nS    == <<"s">>
nM    == <<"m">>
nNode == <<"n", "o", "d", "e", "_", "m", "o", "d", "u", "l", "e", "s">>

Root  == <<>>
pEnv  == <<nEnv>>
pD    == <<nD>>
pG    == <<nD, nG>>
pS    == <<nD, nS>>
pF    == <<nF>>
pNode == <<nNode>>
pM    == <<nNode, nM>>

\* Every entry, in the lexical order filepath.Walk visits them.
WalkOrder == <<Root, pEnv, pD, pG, pS, pF, pNode, pM>>

DirIds   == {Root, pD, pS, pNode}
FileIds  == {pEnv, pG, pF, pM}
PathIds  == DirIds \cup FileIds

Parent(p) == SubSeq(p, 1, Len(p) - 1)

\* p is q or lies below q.
Under(p, q) == Len(p) >= Len(q) /\ SubSeq(p, 1, Len(q)) = q

RECURSIVE JoinFrom(_, _)
JoinFrom(p, i) ==
    IF i > Len(p) THEN <<>>
    ELSE <<Separator>> \o p[i] \o JoinFrom(p, i + 1)

\* filepath.Join(ws, components...): the absolute path of entry p.
AbsPathIn(ws, p) == ws \o JoinFrom(p, 1)
AbsPath(p) == AbsPathIn(workspacePath, p)

\* The trees that can exist: every entry but the root has its parent.
Trees == {t \in SUBSET (PathIds \ {Root}) :
              \A p \in t : Parent(p) = Root \/ Parent(p) \in t}

-----------------------------------------------------------------------------
(* internal/gitignore: Matcher *)

\* NewMatcher's default ignores: ".git/", ".DS_Store", "node_modules/".
defaultIgnores ==
    << <<".", "g", "i", "t", "/">>,
       <<".", "D", "S", "_", "S", "t", "o", "r", "e">>,
       <<"n", "o", "d", "e", "_", "m", "o", "d", "u", "l", "e", "s", "/">> >>

\* The Matcher of the running program.
Matcher == [workspacePath |-> workspacePath,
            hasGitIgnore  |-> hasGitIgnore,
            ignore        |-> ignore]

\* ignore.GitIgnore.MatchesPath: m.ignore holds the relative paths the
\* compiled .gitignore matches.
MatchesPath(m, relPath) == relPath \in m.ignore

MatchesDefault(relPath) ==
    \E i \in DOMAIN defaultIgnores :
        HasPrefix(relPath, defaultIgnores[i]) \/ relPath = defaultIgnores[i]

ShouldIgnore(m, path) ==
    IF Base(path)[1] = "." THEN TRUE
    ELSE LET relPath == ToSlash(Rel(m.workspacePath, path))
         IN  IF MatchesDefault(relPath) THEN TRUE
             ELSE IF m.hasGitIgnore THEN MatchesPath(m, relPath)
             ELSE FALSE

\* Faulty variant of ShouldIgnoreDir: the workspace root is not exempt.
ShouldIgnoreDir_NoRootCheck(m, path) == ShouldIgnore(m, path)

ShouldIgnoreDir(m, path) ==
    IF path = m.workspacePath THEN FALSE
    ELSE ShouldIgnore(m, path)

-----------------------------------------------------------------------------
(* Failures a walk or a watch call can meet.  One handler run meets at    *)
(* most one: an entry filepath.Walk reports with an error, or a directory *)
(* fsnotify's Add refuses.                                                *)

NoFault == [kind |-> "none", path |-> Root]
Faults  == {NoFault}
             \cup {[kind |-> "walk", path |-> p] : p \in PathIds}
             \cup {[kind |-> "add", path |-> d] : d \in DirIds}

WalkErr(fault, p) == fault.kind = "walk" /\ fault.path = p
AddErr(fault, d)  == fault.kind = "add" /\ fault.path = d

\* os.Stat(name) succeeded and reports a directory.
IsDir(tree, p) == p \in DirIds /\ (p = Root \/ p \in tree)

Exists(tree, p) == p = Root \/ p \in tree

-----------------------------------------------------------------------------
(* filepath.Walk *)

\* The entries of WalkOrder from index i on that filepath.Walk(start) hands to
\* its callback, in order: those at or below start that exist and have no
\* ancestor (from start down) in `stop`, the directories the walk does not
\* descend into (the callback returned SkipDir there, or reading them failed).
RECURSIVE Visits(_, _, _, _)
Visits(i, start, tree, stop) ==
    IF i > Len(WalkOrder) THEN <<>>
    ELSE LET p == WalkOrder[i]
             called ==
                 /\ Under(p, start)
                 /\ Exists(tree, p)
                 /\ \A k \in Len(start) .. (Len(p) - 1) : SubSeq(p, 1, k) \notin stop
         IN  (IF called THEN <<p>> ELSE <<>>) \o Visits(i + 1, start, tree, stop)

\* The directories a walk with this callback does not descend into.
WalkStops(m, ws, fault, exempt) ==
    {d \in DirIds : WalkErr(fault, d)
                    \/ (d \notin exempt /\ ShouldIgnoreDir(m, AbsPathIn(ws, d)))}

-----------------------------------------------------------------------------
(* internal/watcher: FileWatcher *)

EventCreate == "Create"
EventModify == "Modify"
EventDelete == "Delete"

\* fsnotify.Op bits.
Ops == {"Create", "Write", "Remove", "Rename", "Chmod"}

NoEvent == [Path |-> Root, EventType |-> "none"]

\* The watcher's own state: w.watchedDirs, and fsnotify's watches.
WatcherState == [watchedDirs |-> watchedDirs,
                 osWatches   |-> osWatches,
                 addCalls    |-> addCalls]

startWatching(w, path, fault) ==
    IF path \in w.watchedDirs
    THEN [w |-> w, err |-> FALSE]
    ELSE IF AddErr(fault, path)
    THEN [w |-> [w EXCEPT !.addCalls = @ \cup {path}], err |-> TRUE]
    ELSE [w |-> [watchedDirs |-> w.watchedDirs \cup {path},
                 osWatches   |-> w.osWatches \cup {path},
                 addCalls    |-> w.addCalls \cup {path}],
          err |-> FALSE]

stopWatching(w, path) ==
    IF path \in w.watchedDirs
    THEN [w EXCEPT !.watchedDirs = @ \ {path}, !.osWatches = @ \ {path}]
    ELSE w

\* scanWorkspace's callback over the visited entries from index i on; the
\* first error ends the walk.
RECURSIVE ScanFrom(_, _, _, _, _)
ScanFrom(i, visits, m, w, fault) ==
    IF i > Len(visits) THEN [w |-> w, err |-> FALSE]
    ELSE LET p == visits[i]
         IN  IF WalkErr(fault, p) THEN [w |-> w, err |-> TRUE]
             ELSE IF p \in DirIds
             THEN IF ShouldIgnoreDir(m, AbsPathIn(m.workspacePath, p))
                  THEN ScanFrom(i + 1, visits, m, w, fault)
                  ELSE LET r == startWatching(w, p, fault)
                       IN  IF r.err THEN r
                           ELSE ScanFrom(i + 1, visits, m, r.w, fault)
             ELSE ScanFrom(i + 1, visits, m, w, fault)

\* Faulty variant of scanWorkspace: the walk descends into ignored directories.
scanWorkspace_NoPrune(m, tree, w, fault) ==
    ScanFrom(1, Visits(1, Root, tree, {d \in DirIds : WalkErr(fault, d)}),
             m, w, fault)

scanWorkspace(m, tree, w, fault) ==
    ScanFrom(1, Visits(1, Root, tree, WalkStops(m, m.workspacePath, fault, {})),
             m, w, fault)

\* Faulty variant of SubWalkFrom: the first error ends the sub-walk.
RECURSIVE SubWalkFrom_StopAtError(_, _, _, _, _, _)
SubWalkFrom_StopAtError(i, visits, name, m, w, fault) ==
    IF i > Len(visits) THEN w
    ELSE LET p == visits[i]
         IN  IF WalkErr(fault, p) THEN w
             ELSE IF p \in DirIds /\ p # name
             THEN IF ShouldIgnoreDir(m, AbsPathIn(m.workspacePath, p))
                  THEN SubWalkFrom_StopAtError(i + 1, visits, name, m, w, fault)
                  ELSE LET r == startWatching(w, p, fault)
                       IN  IF r.err THEN r.w
                           ELSE SubWalkFrom_StopAtError(i + 1, visits, name, m, r.w, fault)
             ELSE SubWalkFrom_StopAtError(i + 1, visits, name, m, w, fault)

\* The sub-walk of handleFsEvent for a new directory `name`: errors are
\* swallowed, the directory itself is not checked again.
RECURSIVE SubWalkFrom(_, _, _, _, _, _)
SubWalkFrom(i, visits, name, m, w, fault) ==
    IF i > Len(visits) THEN w
    ELSE LET p == visits[i]
         IN  IF WalkErr(fault, p) THEN SubWalkFrom(i + 1, visits, name, m, w, fault)
             ELSE IF p \in DirIds /\ p # name
             THEN IF ShouldIgnoreDir(m, AbsPathIn(m.workspacePath, p))
                  THEN SubWalkFrom(i + 1, visits, name, m, w, fault)
                  ELSE SubWalkFrom(i + 1, visits, name, m,
                                   startWatching(w, p, fault).w, fault)
             ELSE SubWalkFrom(i + 1, visits, name, m, w, fault)

\* GetInitialFiles' callback over the visited entries from index i on.
RECURSIVE ListFrom(_, _, _, _)
ListFrom(i, visits, m, fault) ==
    IF i > Len(visits) THEN <<>>
    ELSE LET p == visits[i]
         IN  IF WalkErr(fault, p) THEN ListFrom(i + 1, visits, m, fault)
             ELSE IF p \in DirIds THEN ListFrom(i + 1, visits, m, fault)
             ELSE IF ~ShouldIgnore(m, AbsPathIn(m.workspacePath, p))
             THEN <<p>> \o ListFrom(i + 1, visits, m, fault)
             ELSE ListFrom(i + 1, visits, m, fault)

\* Faulty variant of GetInitialFiles: ignored directories are walked into.
GetInitialFiles_NoSkipDir(m, tree, fault) ==
    ListFrom(1, Visits(1, Root, tree, {d \in DirIds : WalkErr(fault, d)}), m, fault)

GetInitialFiles(m, tree, fault) ==
    ListFrom(1, Visits(1, Root, tree, WalkStops(m, m.workspacePath, fault, {})),
             m, fault)

\* Faulty variant of EventTypeOf: the Write bit is looked at before the Create bit.
EventTypeOf_WriteFirst(op) ==
    IF "Write" \in op THEN EventModify
    ELSE IF "Create" \in op THEN EventCreate
    ELSE IF op \cap {"Remove", "Rename"} # {} THEN EventDelete
    ELSE "none"

\* The FileEvent type of a notification's op bits, "none" when it is dropped.
EventTypeOf(op) ==
    IF "Create" \in op THEN EventCreate
    ELSE IF "Write" \in op THEN EventModify
    ELSE IF op \cap {"Remove", "Rename"} # {} THEN EventDelete
    ELSE "none"

\* Faulty variant of handleFsEvent: the notification's path is not checked against
\* the ignore rules.
handleFsEvent_NoIgnoreCheck(m, tree, w, event, fault) ==
    IF IsDir(tree, event.Name)
    THEN IF "Create" \in event.Op
         THEN LET r == startWatching(w, event.Name, fault)
              IN  [w |-> r.w, send |-> NoEvent]
         ELSE [w |-> w, send |-> NoEvent]
    ELSE IF EventTypeOf(event.Op) = "none"
    THEN [w |-> w, send |-> NoEvent]
    ELSE [w |-> w, send |-> [Path |-> event.Name, EventType |-> EventTypeOf(event.Op)]]

\* handleFsEvent(event) with the filesystem as it is: the watcher's state
\* afterwards and the FileEvent it goes on to send (NoEvent: none).
handleFsEvent(m, tree, w, event, fault) ==
    IF ShouldIgnore(m, AbsPathIn(m.workspacePath, event.Name))
    THEN [w |-> w, send |-> NoEvent]
    ELSE IF IsDir(tree, event.Name)
    THEN IF "Create" \in event.Op
         THEN LET r == startWatching(w, event.Name, fault)
              IN  IF r.err THEN [w |-> r.w, send |-> NoEvent]
                  ELSE [w |-> SubWalkFrom(1,
                                  Visits(1, event.Name, tree,
                                         WalkStops(m, m.workspacePath, fault, {event.Name})),
                                  event.Name, m, r.w, fault),
                        send |-> NoEvent]
         ELSE IF event.Op \cap {"Remove", "Rename"} # {}
         THEN [w |-> stopWatching(w, event.Name), send |-> NoEvent]
         ELSE [w |-> w, send |-> NoEvent]
    ELSE IF EventTypeOf(event.Op) = "none"
    THEN [w |-> w, send |-> NoEvent]
    ELSE [w |-> w, send |-> [Path |-> event.Name, EventType |-> EventTypeOf(event.Op)]]


-----------------------------------------------------------------------------
(* internal/resources: ResourceManager, and the MCP server's registry *)

\* GetFileURI: the paths of the model are absolute already.
GetFileURI(ws, path) == fileURIPrefix \o AbsPathIn(ws, path)

\* server.RegisterResource(uri, ...): a call that fails leaves the registry
\* as it was.
RegisterFileResource(reg, ws, path, ok) ==
    IF ok THEN [reg |-> reg \cup {GetFileURI(ws, path)}, err |-> FALSE]
    ELSE [reg |-> reg, err |-> TRUE]

\* server.DeregisterResource(uri).
DeregisterFileResource(reg, ws, path, ok) ==
    IF ok THEN [reg |-> reg \ {GetFileURI(ws, path)}, err |-> FALSE]
    ELSE [reg |-> reg, err |-> TRUE]

-----------------------------------------------------------------------------
(* internal/server: MCPServer *)

\* The server's state: its table, and the registry it drives.
Server == [workspacePath   |-> workspacePath,
           registeredFiles |-> registeredFiles,
           registry        |-> registry]

\* Each handler gives the server's state afterwards, the Registry call it
\* made ("none", "Register", "Deregister") and whether it returned an error.
\* Faulty variant of registerFile: the path is marked although Register failed.
registerFile_MarkOnFailure(s, path, ok) ==
    IF path \in s.registeredFiles
    THEN [s |-> s, call |-> "none", err |-> FALSE]
    ELSE LET r == RegisterFileResource(s.registry, s.workspacePath, path, ok)
         IN  [s |-> [s EXCEPT !.registry = r.reg,
                              !.registeredFiles = @ \cup {path}],
              call |-> "Register", err |-> r.err]

registerFile(s, path, ok) ==
    IF path \in s.registeredFiles
    THEN [s |-> s, call |-> "none", err |-> FALSE]
    ELSE LET r == RegisterFileResource(s.registry, s.workspacePath, path, ok)
         IN  IF r.err
             THEN [s |-> [s EXCEPT !.registry = r.reg],
                   call |-> "Register", err |-> TRUE]
             ELSE [s |-> [s EXCEPT !.registry = r.reg,
                                   !.registeredFiles = @ \cup {path}],
                   call |-> "Register", err |-> FALSE]

\* Faulty variant of updateFile: a modification of an unregistered file is dropped.
updateFile_NoSelfHeal(s, path, ok) ==
    [s |-> s, call |-> "none", err |-> FALSE]

updateFile(s, path, ok) ==
    LET isRegistered == path \in s.registeredFiles
    IN  IF isRegistered
        THEN [s |-> s, call |-> "none", err |-> FALSE]
        ELSE registerFile(s, path, ok)

\* Faulty variant of unregisterFile: the entry is deleted although Deregister failed.
unregisterFile_DropOnFailure(s, path, ok) ==
    IF path \notin s.registeredFiles
    THEN [s |-> s, call |-> "none", err |-> FALSE]
    ELSE LET r == DeregisterFileResource(s.registry, s.workspacePath, path, ok)
         IN  [s |-> [s EXCEPT !.registry = r.reg,
                              !.registeredFiles = @ \ {path}],
              call |-> "Deregister", err |-> r.err]

\* Faulty variant of unregisterFile: no check that the path is registered.
unregisterFile_NoSkip(s, path, ok) ==
    LET r == DeregisterFileResource(s.registry, s.workspacePath, path, ok)
    IN  IF r.err
        THEN [s |-> [s EXCEPT !.registry = r.reg],
              call |-> "Deregister", err |-> TRUE]
        ELSE [s |-> [s EXCEPT !.registry = r.reg,
                              !.registeredFiles = @ \ {path}],
              call |-> "Deregister", err |-> FALSE]

unregisterFile(s, path, ok) ==
    IF path \notin s.registeredFiles
    THEN [s |-> s, call |-> "none", err |-> FALSE]
    ELSE LET r == DeregisterFileResource(s.registry, s.workspacePath, path, ok)
         IN  IF r.err
             THEN [s |-> [s EXCEPT !.registry = r.reg],
                   call |-> "Deregister", err |-> TRUE]
             ELSE [s |-> [s EXCEPT !.registry = r.reg,
                                   !.registeredFiles = @ \ {path}],
                   call |-> "Deregister", err |-> FALSE]

handleFileEvent(s, event, ok) ==
    IF event.EventType = EventCreate THEN registerFile(s, event.Path, ok)
    ELSE IF event.EventType = EventModify THEN updateFile(s, event.Path, ok)
    ELSE IF event.EventType = EventDelete THEN unregisterFile(s, event.Path, ok)
    ELSE [s |-> s, call |-> "none", err |-> FALSE]

\* registerExistingFiles' loop over files[i..]: the registrations of the
\* files in `failing` fail, which is logged and passed over.
RECURSIVE RegisterAllFrom(_, _, _, _)
RegisterAllFrom(i, files, s, failing) ==
    IF i > Len(files) THEN s
    ELSE RegisterAllFrom(i + 1, files,
                         registerFile(s, files[i], files[i] \notin failing).s,
                         failing)

registerExistingFiles(s, m, tree, fault, failing) ==
    LET files == GetInitialFiles(m, tree, fault)
    IN  [files |-> files, s |-> RegisterAllFrom(1, files, s, failing)]

SeqToSet(q) == {q[i] : i \in DOMAIN q}

-----------------------------------------------------------------------------
(* The workspaces the program is started on *)

wsPlain == <<"/", "w">>
wsDot   == <<"/", ".", "w">>

\* .gitignore holding "d" and "!d/g": of the modelled entries it matches the
\* directory d and its sub-directory, not the file d/g.
gitIgnoreD == {<<"d">>, <<"d", "/", "s">>}

cfgPlain == [workspacePath |-> wsPlain, hasGitIgnore |-> FALSE, ignore |-> {}]
cfgDot   == [workspacePath |-> wsDot,   hasGitIgnore |-> FALSE, ignore |-> {}]
cfgGit   == [workspacePath |-> wsPlain, hasGitIgnore |-> TRUE,  ignore |-> gitIgnoreD]

\* .gitignore holding "d/s": it matches the sub-directory of d only.
gitIgnoreS == {<<"d", "/", "s">>}
cfgSub   == [workspacePath |-> wsPlain, hasGitIgnore |-> TRUE,  ignore |-> gitIgnoreS]

\* .gitignore holding "*": it matches every relative path, "." (the root's
\* own) included.
gitIgnoreAll == {ToSlash(Rel(wsPlain, AbsPathIn(wsPlain, p))) : p \in PathIds}
cfgAll   == [workspacePath |-> wsPlain, hasGitIgnore |-> TRUE,  ignore |-> gitIgnoreAll]

\* .gitignore holding "d" and "!d/*": it matches the directory d and nothing
\* below it.
gitIgnoreTop == {<<"d">>}
cfgTop   == [workspacePath |-> wsPlain, hasGitIgnore |-> TRUE,  ignore |-> gitIgnoreTop]

Configs == {cfgPlain, cfgDot, cfgGit, cfgSub, cfgAll, cfgTop}

FullTree == PathIds \ {Root}

\* The workspaces the program is started on: a matcher and a tree.
Workspaces ==
    ({cfgPlain} \X { {}, {pD}, {pEnv, pF}, FullTree })
      \cup ({cfgDot} \X { {pD}, FullTree })
      \cup ({cfgGit} \X { {}, FullTree })
      \cup ({cfgAll} \X { {pD} })
      \cup ({cfgTop} \X { FullTree })

NoLog == [Name |-> Root, Op |-> {}, sent |-> NoEvent, fault |-> NoFault]

\* No call under way.
NoProc == [pc |-> "idle", op |-> "none", path |-> Root]

\* NewMCPServer / NewFileWatcher: a live context, open channels, Stop not
\* called, both mutexes free.
InitLife ==
    /\ ctxDone = FALSE
    /\ fwDone = FALSE
    /\ osClosed = FALSE
    /\ eventsClosed = FALSE
    /\ stopPc = "none"
    /\ readLog = <<>>
    /\ handled = <<>>
    /\ mu = "free"
    /\ fwMu = "free"
    /\ syncProc = NoProc
    /\ watchProc = NoProc
    /\ sigPending = FALSE
    /\ parentDead = FALSE
    /\ procDone = FALSE
    /\ panicked = FALSE
    /\ sigPc = "off"
    /\ monPc = "off"
    /\ stopCalls = 0

\* NewMCPServer / NewFileWatcher: empty maps, no goroutine running.
Init ==
    /\ \E ws \in Workspaces :
          /\ workspacePath = ws[1].workspacePath
          /\ hasGitIgnore = ws[1].hasGitIgnore
          /\ ignore = ws[1].ignore
          /\ fs = ws[2]
    /\ fsBudget = MaxFsOps
    /\ osWatches = {}
    /\ rawq = <<>>
    /\ watchedDirs = {}
    /\ addCalls = {}
    /\ mainPc = "new"
    /\ startLog = <<>>
    /\ initialFiles = <<>>
    /\ pumpPc = "off"
    /\ pumpSend = NoEvent
    /\ consPc = "off"
    /\ registeredFiles = {}
    /\ registry = {}
    /\ faults = {}
    /\ pumpLog = NoLog
    /\ hist = <<>>
    /\ InitLife

configVars  == <<workspacePath, hasGitIgnore, ignore>>
watcherVars == <<osWatches, watchedDirs, addCalls>>
serverVars  == <<registeredFiles, registry>>
lifeVars    == <<ctxDone, fwDone, osClosed, eventsClosed, stopPc>>
orderVars   == <<readLog, handled>>
lockVars    == <<mu, fwMu, syncProc, watchProc>>
procVars    == <<sigPending, parentDead, procDone, panicked, sigPc, monPc, stopCalls>>

FaultKind(fault) == IF fault = NoFault THEN {} ELSE {fault.kind}

-----------------------------------------------------------------------------
(* MCPServer.Start *)

\* Start, first half: registerExistingFiles.
RegisterExisting ==
    /\ mainPc = "new"
    /\ \E fault \in {f \in Faults : f.kind # "add"} :
       \E failing \in SUBSET SeqToSet(GetInitialFiles(Matcher, fs, fault)) :
          LET r == registerExistingFiles(Server, Matcher, fs, fault, failing)
          IN  /\ initialFiles' = r.files
              /\ registeredFiles' = r.s.registeredFiles
              /\ registry' = r.s.registry
              /\ faults' = faults \cup FaultKind(fault)
                                  \cup (IF failing = {} THEN {} ELSE {"registry"})
    /\ mainPc' = "registered"
    /\ startLog' = Append(startLog, "list")
    /\ UNCHANGED <<configVars, fs, fsBudget, watcherVars, rawq, pumpPc,
                   pumpSend, consPc, pumpLog, hist>>
    /\ UNCHANGED <<lifeVars, orderVars>>
    /\ UNCHANGED lockVars
    /\ UNCHANGED procVars

\* Start, second half: watcher.Start (scanWorkspace, go eventLoop), then
\* go processFileEvents.  A failed scan is fatal to the process.
StartWatcher ==
    /\ mainPc = "registered"
    /\ \E fault \in Faults :
          LET r == scanWorkspace(Matcher, fs, WatcherState, fault)
          IN  /\ watchedDirs' = r.w.watchedDirs
              /\ osWatches' = r.w.osWatches
              /\ addCalls' = r.w.addCalls
              /\ faults' = faults \cup FaultKind(fault)
              /\ IF r.err
                 THEN /\ mainPc' = "failed"
                      /\ startLog' = Append(startLog, "scan failed")
                      /\ UNCHANGED <<pumpPc, consPc>>
                 ELSE /\ mainPc' = "running"
                      /\ startLog' = startLog \o <<"scan", "loop">>
                      /\ pumpPc' = "idle"
                      /\ consPc' = "run"
    /\ UNCHANGED <<configVars, fs, fsBudget, rawq, initialFiles, pumpSend,
                   serverVars, pumpLog, hist>>
    /\ UNCHANGED <<lifeVars, orderVars>>
    /\ UNCHANGED lockVars
    /\ UNCHANGED procVars

-----------------------------------------------------------------------------
(* The filesystem and fsnotify: a change to an entry whose directory is   *)
(* watched is queued as a notification.                                   *)

Notify(p, op) ==
    IF Parent(p) \in osWatches
    THEN Append(rawq, [Name |-> p, Op |-> {op}])
    ELSE rawq

FsLive == mainPc \in {"registered", "running"} /\ fsBudget > 0

FsCreate(p) ==
    /\ FsLive
    /\ p \notin fs
    /\ Exists(fs, Parent(p))
    /\ fs' = fs \cup {p}
    /\ rawq' = Notify(p, "Create")
    /\ fsBudget' = fsBudget - 1
    /\ UNCHANGED <<configVars, watcherVars, mainPc, startLog, initialFiles,
                   pumpPc, pumpSend, consPc, serverVars, faults, pumpLog, hist>>
    /\ UNCHANGED <<lifeVars, orderVars>>
    /\ UNCHANGED lockVars
    /\ UNCHANGED procVars

FsWrite(p) ==
    /\ FsLive
    /\ p \in fs \cap FileIds
    /\ Parent(p) \in osWatches
    /\ rawq' = Notify(p, "Write")
    /\ fsBudget' = fsBudget - 1
    /\ UNCHANGED <<configVars, fs, watcherVars, mainPc, startLog, initialFiles,
                   pumpPc, pumpSend, consPc, serverVars, faults, pumpLog, hist>>
    /\ UNCHANGED <<lifeVars, orderVars>>
    /\ UNCHANGED lockVars
    /\ UNCHANGED procVars

FsChmod(p) ==
    /\ FsLive
    /\ p \in fs \cap FileIds
    /\ Parent(p) \in osWatches
    /\ rawq' = Notify(p, "Chmod")
    /\ fsBudget' = fsBudget - 1
    /\ UNCHANGED <<configVars, fs, watcherVars, mainPc, startLog, initialFiles,
                   pumpPc, pumpSend, consPc, serverVars, faults, pumpLog, hist>>
    /\ UNCHANGED <<lifeVars, orderVars>>
    /\ UNCHANGED lockVars
    /\ UNCHANGED procVars

\* unlink / rmdir: the kernel drops the watch of a removed directory.
FsRemove(p) ==
    /\ FsLive
    /\ p \in fs
    /\ \A q \in fs : Parent(q) # p
    /\ fs' = fs \ {p}
    /\ osWatches' = osWatches \ {p}
    /\ rawq' = Notify(p, "Remove")
    /\ fsBudget' = fsBudget - 1
    /\ UNCHANGED <<configVars, watchedDirs, addCalls, mainPc, startLog,
                   initialFiles, pumpPc, pumpSend, consPc, serverVars, faults,
                   pumpLog, hist>>
    /\ UNCHANGED <<lifeVars, orderVars>>
    /\ UNCHANGED lockVars
    /\ UNCHANGED procVars

\* A file moved out of the workspace.
FsRename(p) ==
    /\ FsLive
    /\ p \in fs \cap FileIds
    /\ fs' = fs \ {p}
    /\ rawq' = Notify(p, "Rename")
    /\ fsBudget' = fsBudget - 1
    /\ UNCHANGED <<configVars, watcherVars, mainPc, startLog, initialFiles,
                   pumpPc, pumpSend, consPc, serverVars, faults, pumpLog, hist>>
    /\ UNCHANGED <<lifeVars, orderVars>>
    /\ UNCHANGED lockVars
    /\ UNCHANGED procVars

-----------------------------------------------------------------------------
(* FileWatcher.eventLoop and MCPServer.processFileEvents *)

\* The failures handleFsEvent(event) can meet: only a new directory is
\* watched and walked.
FaultsFor(event) ==
    IF IsDir(fs, event.Name) /\ "Create" \in event.Op
       /\ ~ShouldIgnore(Matcher, AbsPath(event.Name))
    THEN {f \in Faults : f.kind = "none" \/ Under(f.path, event.Name)}
    ELSE {NoFault}

\* Faulty variant of PumpStep: the pump takes the newest notification, not the
\* oldest.
PumpStep_Newest(log) ==
    /\ pumpPc = "idle"
    /\ ~osClosed
    /\ rawq # <<>>
    /\ LET ev == rawq[Len(rawq)]
           r  == handleFsEvent(Matcher, fs, WatcherState, ev, NoFault)
       IN  /\ watchedDirs' = r.w.watchedDirs
           /\ osWatches' = r.w.osWatches
           /\ addCalls' = r.w.addCalls
           /\ pumpSend' = r.send
           /\ pumpPc' = IF r.send = NoEvent THEN "idle" ELSE "sending"
           /\ pumpLog' = IF log THEN [Name |-> ev.Name, Op |-> ev.Op, sent |-> r.send,
                                       fault |-> NoFault]
                         ELSE pumpLog
           /\ readLog' = IF log THEN Append(readLog, ev) ELSE readLog
    /\ rawq' = SubSeq(rawq, 1, Len(rawq) - 1)
    /\ UNCHANGED <<configVars, fs, fsBudget, mainPc, startLog, initialFiles,
                   consPc, serverVars, hist, lifeVars, handled, faults>>
    /\ UNCHANGED lockVars
    /\ UNCHANGED procVars

\* eventLoop reads one notification and runs handleFsEvent on it, up to the
\* send on fw.events, which blocks until processFileEvents receives.
PumpStep(log) ==
    /\ pumpPc = "idle"
    /\ ~osClosed
    /\ rawq # <<>>
    /\ \E fault \in FaultsFor(Head(rawq)) :
          LET r == handleFsEvent(Matcher, fs, WatcherState, Head(rawq), fault)
          IN  /\ watchedDirs' = r.w.watchedDirs
              /\ osWatches' = r.w.osWatches
              /\ addCalls' = r.w.addCalls
              /\ pumpSend' = r.send
              /\ pumpPc' = IF r.send = NoEvent THEN "idle" ELSE "sending"
              /\ faults' = faults \cup FaultKind(fault)
              /\ pumpLog' = IF log
                            THEN [Name |-> Head(rawq).Name, Op |-> Head(rawq).Op,
                                  sent |-> r.send, fault |-> fault]
                            ELSE pumpLog
    /\ rawq' = Tail(rawq)
    /\ readLog' = IF log THEN Append(readLog, Head(rawq)) ELSE readLog
    /\ UNCHANGED <<configVars, fs, fsBudget, mainPc, startLog, initialFiles,
                   consPc, serverVars, hist, lifeVars, handled>>
    /\ UNCHANGED lockVars
    /\ UNCHANGED procVars

PumpHandle == PumpStep(FALSE)

\* processFileEvents receives the FileEvent the pump is sending and runs
\* handleFileEvent on it.
ConsumerStep(log) ==
    /\ consPc = "run"
    /\ pumpPc = "sending"
    /\ \E ok \in BOOLEAN :
          LET r == handleFileEvent(Server, pumpSend, ok)
          IN  /\ registeredFiles' = r.s.registeredFiles
              /\ registry' = r.s.registry
              /\ faults' = faults \cup (IF r.err THEN {"registry"} ELSE {})
    /\ pumpPc' = "idle"
    /\ pumpSend' = NoEvent
    /\ handled' = IF log
                  THEN Append(handled, [n |-> Len(readLog), Path |-> pumpSend.Path,
                                        EventType |-> pumpSend.EventType])
                  ELSE handled
    /\ UNCHANGED <<configVars, fs, fsBudget, watcherVars, rawq, mainPc, startLog,
                   initialFiles, consPc, pumpLog, hist, lifeVars, readLog>>
    /\ UNCHANGED lockVars
    /\ UNCHANGED procVars

ConsumerReceive == ConsumerStep(FALSE)

Next ==
    \/ RegisterExisting
    \/ StartWatcher
    \/ \E p \in PathIds \ {Root} : FsCreate(p)
    \/ \E p \in PathIds \ {Root} : FsWrite(p)
    \/ \E p \in PathIds \ {Root} : FsChmod(p)
    \/ \E p \in PathIds \ {Root} : FsRemove(p)
    \/ \E p \in PathIds \ {Root} : FsRename(p)
    \/ PumpHandle
    \/ ConsumerReceive

Spec == Init /\ [][Next]_vars


-----------------------------------------------------------------------------
(* The synchronizer on its own: handleFileEvent driven by any sequence of *)
(* FileEvents (duplicates, events out of order), every Registry call free *)
(* to fail.  hist keeps the last two calls.                               *)

SyncPaths == {pF, pG, pD}

InitSync ==
    /\ \E c \in Configs :
          /\ workspacePath = c.workspacePath
          /\ hasGitIgnore = c.hasGitIgnore
          /\ ignore = c.ignore
    /\ fs = {}
    /\ fsBudget = 0
    /\ osWatches = {}
    /\ rawq = <<>>
    /\ watchedDirs = {}
    /\ addCalls = {}
    /\ mainPc = "new"
    /\ startLog = <<>>
    /\ initialFiles = <<>>
    /\ pumpPc = "off"
    /\ pumpSend = NoEvent
    /\ consPc = "off"
    /\ registeredFiles = {}
    /\ registry = {}
    /\ faults = {}
    /\ pumpLog = NoLog
    /\ hist = <<>>
    /\ InitLife

SyncCall(event) ==
    /\ \E ok \in BOOLEAN :
          LET r == handleFileEvent(Server, event, ok)
              rec == [op    |-> event.EventType,
                      path  |-> event.Path,
                      was   |-> event.Path \in registeredFiles,
                      call  |-> r.call,
                      err   |-> r.err,
                      after |-> r.s.registeredFiles]
          IN  /\ registeredFiles' = r.s.registeredFiles
              /\ registry' = r.s.registry
              /\ faults' = faults \cup (IF r.err THEN {"registry"} ELSE {})
              /\ hist' = IF hist = <<>> THEN <<rec>> ELSE <<hist[Len(hist)], rec>>
    /\ UNCHANGED <<configVars, fs, fsBudget, watcherVars, rawq, mainPc, startLog,
                   initialFiles, pumpPc, pumpSend, consPc, pumpLog>>
    /\ UNCHANGED <<lifeVars, orderVars>>
    /\ UNCHANGED lockVars
    /\ UNCHANGED procVars

OnCreate(p) == SyncCall([Path |-> p, EventType |-> EventCreate])
OnModify(p) == SyncCall([Path |-> p, EventType |-> EventModify])
OnDelete(p) == SyncCall([Path |-> p, EventType |-> EventDelete])

NextSync ==
    \/ \E p \in SyncPaths : OnCreate(p)
    \/ \E p \in SyncPaths : OnModify(p)
    \/ \E p \in SyncPaths : OnDelete(p)

SyncSpec == InitSync /\ [][NextSync]_vars

\* The last call, the one before it, and the table each of them found.
Last == hist[Len(hist)]
Prev == hist[1]
TableBeforeLast == IF Len(hist) = 2 THEN hist[1].after ELSE {}
TwoCalls == Len(hist) = 2
SamePathTwice(op) ==
    /\ TwoCalls
    /\ Prev.op = op /\ Last.op = op
    /\ Prev.path = Last.path

-----------------------------------------------------------------------------
\* C1: after any sequence of onCreate, onModify and onDelete calls, failed
\* Registry calls included, a path is in registeredFiles if and only if the
\* registry holds the resource of that path (and the registry holds nothing
\* else).
C1_TableMatchesRegistry ==
    /\ \A p \in PathIds :
          p \in registeredFiles <=> GetFileURI(workspacePath, p) \in registry
    /\ registry \subseteq {GetFileURI(workspacePath, p) : p \in PathIds}

\* A Register and a Deregister have just failed, next to a registered path.
C1_Witness ==
    /\ TwoCalls
    /\ Prev.call = "Register" /\ Prev.err
    /\ Last.call = "Deregister" /\ Last.err
    /\ Last.path \in registeredFiles
    /\ Prev.path \notin registeredFiles

\* C2 as claimed: of two consecutive onCreate(p), the first succeeding, the
\* second makes no Register call and leaves the table alone (one Register
\* call in all when p was not registered); of two consecutive onDelete(p) on
\* a registered p the second makes no Deregister call, returns no error and
\* leaves the table alone (one Deregister call in all).
C2_IdempotentAsClaimed ==
    /\ (SamePathTwice(EventCreate) /\ ~Prev.err) =>
          /\ Last.call = "none"
          /\ ~Last.err
          /\ Last.after = Prev.after
          /\ (~Prev.was => Prev.call = "Register")
    /\ (SamePathTwice(EventDelete) /\ Prev.was) =>
          /\ Prev.call = "Deregister"
          /\ Last.call = "none"
          /\ ~Last.err
          /\ Last.after = Prev.after

\* C2, amended: the same, for onDelete too only when the first call
\* succeeded: after a failed Deregister the path is still registered and the
\* second onDelete calls Deregister again.
C2_Idempotent ==
    /\ (SamePathTwice(EventCreate) /\ ~Prev.err) =>
          /\ Last.call = "none"
          /\ ~Last.err
          /\ Last.after = Prev.after
          /\ (~Prev.was => Prev.call = "Register")
    /\ (SamePathTwice(EventDelete) /\ Prev.was /\ ~Prev.err) =>
          /\ Prev.call = "Deregister"
          /\ Last.call = "none"
          /\ ~Last.err
          /\ Last.after = Prev.after

\* Two onDelete in a row on a registered path, the first one succeeding.
C2_Witness ==
    /\ SamePathTwice(EventDelete)
    /\ Prev.was /\ Prev.call = "Deregister" /\ ~Prev.err
    /\ Last.call = "none"

\* C8: onModify(p) does what onCreate(p) does, in every state: on a
\* registered p neither makes a Registry call nor changes the table; on an
\* unregistered p each calls Register(p) and marks p registered exactly when
\* the call succeeds.
C8_ModifyAsCreate ==
    (hist # <<>> /\ Last.op \in {EventCreate, EventModify}) =>
        /\ Last.was = (Last.path \in TableBeforeLast)
        /\ Last.was =>
              /\ Last.call = "none"
              /\ ~Last.err
              /\ Last.after = TableBeforeLast
        /\ ~Last.was =>
              /\ Last.call = "Register"
              /\ Last.after = IF Last.err THEN TableBeforeLast
                              ELSE TableBeforeLast \cup {Last.path}
        /\ registeredFiles = Last.after

\* onModify has just registered a path no Create was seen for, and before
\* it an onModify of a registered path did nothing.
C8_Witness ==
    /\ TwoCalls
    /\ Prev.op = EventModify /\ Prev.was /\ Prev.call = "none"
    /\ Last.op = EventModify /\ ~Last.was /\ Last.call = "Register" /\ ~Last.err
    /\ Last.path \in registeredFiles


-----------------------------------------------------------------------------
(* The pump on one notification of any entry with any op bits, on a       *)
(* running server: start-up went through without a failure on the tree.   *)

ClassifyTrees == { {}, FullTree }

InitClassify ==
    \E c \in Configs, t \in ClassifyTrees,
       p \in PathIds \ {Root}, op \in (SUBSET Ops) \ {{}} :
       LET w0 == [watchedDirs |-> {}, osWatches |-> {}, addCalls |-> {}]
           s0 == [workspacePath |-> c.workspacePath,
                  registeredFiles |-> {}, registry |-> {}]
           w  == scanWorkspace(c, t, w0, NoFault).w
           r  == registerExistingFiles(s0, c, t, NoFault, {})
       IN  /\ workspacePath = c.workspacePath
           /\ hasGitIgnore = c.hasGitIgnore
           /\ ignore = c.ignore
           /\ fs = t
           /\ fsBudget = 0
           /\ osWatches = w.osWatches
           /\ watchedDirs = w.watchedDirs
           /\ addCalls = w.addCalls
           /\ rawq = <<[Name |-> p, Op |-> op]>>
           /\ mainPc = "running"
           /\ startLog = <<"list", "scan", "loop">>
           /\ initialFiles = r.files
           /\ pumpPc = "idle"
           /\ pumpSend = NoEvent
           /\ consPc = "run"
           /\ registeredFiles = r.s.registeredFiles
           /\ registry = r.s.registry
           /\ faults = {}
           /\ pumpLog = NoLog
           /\ hist = <<>>
           /\ InitLife

PumpHandleLogged == PumpStep(TRUE)

NextClassify ==
    \/ PumpHandleLogged
    \/ ConsumerReceive

ClassifySpec == InitClassify /\ [][NextClassify]_vars

\* The pump has handled a notification of a path that is not ignored and
\* does not stat as a directory.
HandledFileNotification ==
    /\ pumpLog # NoLog
    /\ ~ShouldIgnore(Matcher, AbsPath(pumpLog.Name))
    /\ ~IsDir(fs, pumpLog.Name)

-----------------------------------------------------------------------------
\* C6: for a notification of a non-ignored path that is not a directory, and
\* any combination of op bits: the FileEvent sent is a Create if the Create
\* bit is set; else a Modify if the Write bit is set; else a Delete if Remove
\* or Rename is set; and none is sent when none of these bits is set.
C6_FlagPrecedence ==
    HandledFileNotification =>
        LET op == pumpLog.Op
            sent == pumpLog.sent
        IN  /\ "Create" \in op => sent = [Path |-> pumpLog.Name, EventType |-> EventCreate]
            /\ ("Create" \notin op /\ "Write" \in op) =>
                  sent = [Path |-> pumpLog.Name, EventType |-> EventModify]
            /\ ("Create" \notin op /\ "Write" \notin op
                  /\ ("Remove" \in op \/ "Rename" \in op)) =>
                  sent = [Path |-> pumpLog.Name, EventType |-> EventDelete]
            /\ op \subseteq {"Chmod"} => sent = NoEvent
            /\ pumpPc = "sending" => pumpSend = sent

\* A notification with all of Create, Write and Remove set is being sent as
\* a Create.
C6_Witness ==
    /\ HandledFileNotification
    /\ {"Create", "Write", "Remove"} \subseteq pumpLog.Op
    /\ pumpPc = "sending"
    /\ pumpSend = [Path |-> pumpLog.Name, EventType |-> EventCreate]


-----------------------------------------------------------------------------
(* The running server up to its shutdown: start-up went through without a *)
(* failure; the filesystem changes, the pump and the consumer run, and    *)
(* MCPServer.Stop is called at any moment.  readLog and handled record    *)
(* what the pump read and what handleFileEvent ran on.                    *)

RunWorkspaces == ({cfgPlain} \X { {}, {pF} }) \cup ({cfgSub} \X { {} })

\* The entries the environment changes one at a time.
RunPaths == {pF, pD, pG, pS}

InitRun ==
    \E ws \in RunWorkspaces :
       LET c  == ws[1]
           t  == ws[2]
           w0 == [watchedDirs |-> {}, osWatches |-> {}, addCalls |-> {}]
           s0 == [workspacePath |-> c.workspacePath,
                  registeredFiles |-> {}, registry |-> {}]
           w  == scanWorkspace(c, t, w0, NoFault).w
           r  == registerExistingFiles(s0, c, t, NoFault, {})
       IN  /\ workspacePath = c.workspacePath
           /\ hasGitIgnore = c.hasGitIgnore
           /\ ignore = c.ignore
           /\ fs = t
           /\ fsBudget = MaxFsOps
           /\ osWatches = w.osWatches
           /\ watchedDirs = w.watchedDirs
           /\ addCalls = w.addCalls
           /\ rawq = <<>>
           /\ mainPc = "running"
           /\ startLog = <<"list", "scan", "loop">>
           /\ initialFiles = r.files
           /\ pumpPc = "idle"
           /\ pumpSend = NoEvent
           /\ consPc = "run"
           /\ registeredFiles = r.s.registeredFiles
           /\ registry = r.s.registry
           /\ faults = {}
           /\ pumpLog = NoLog
           /\ hist = <<>>
           /\ InitLife

\* A directory moved into the workspace with what it holds: one Create
\* notification, of the directory.
FsMoveIn(d, sub) ==
    /\ FsLive
    /\ d \in DirIds \ {Root}
    /\ d \notin fs
    /\ Exists(fs, Parent(d))
    /\ sub # {}
    /\ \A q \in sub : q # d /\ Under(q, d) /\ (Parent(q) = d \/ Parent(q) \in sub)
    /\ fs' = fs \cup {d} \cup sub
    /\ rawq' = Notify(d, "Create")
    /\ fsBudget' = fsBudget - 1
    /\ UNCHANGED <<configVars, watcherVars, mainPc, startLog, initialFiles,
                   pumpPc, pumpSend, consPc, serverVars, faults, pumpLog, hist>>
    /\ UNCHANGED <<lifeVars, orderVars>>
    /\ UNCHANGED lockVars
    /\ UNCHANGED procVars

\* MCPServer.Stop: s.cancelFunc().
StopCancel ==
    /\ mainPc = "running"
    /\ stopPc = "none"
    /\ ctxDone' = TRUE
    /\ stopPc' = "cancelled"
    /\ UNCHANGED <<configVars, fs, fsBudget, watcherVars, rawq, mainPc, startLog,
                   initialFiles, pumpPc, pumpSend, consPc, serverVars, faults,
                   pumpLog, hist, fwDone, osClosed, eventsClosed, orderVars>>
    /\ UNCHANGED lockVars
    /\ UNCHANGED procVars

\* FileWatcher.Stop: close(fw.done).
StopCloseDone ==
    /\ stopPc = "cancelled"
    /\ fwDone' = TRUE
    /\ stopPc' = "doneClosed"
    /\ UNCHANGED <<configVars, fs, fsBudget, watcherVars, rawq, mainPc, startLog,
                   initialFiles, pumpPc, pumpSend, consPc, serverVars, faults,
                   pumpLog, hist, ctxDone, osClosed, eventsClosed, orderVars>>
    /\ UNCHANGED lockVars
    /\ UNCHANGED procVars

\* FileWatcher.Stop: fw.watcher.Close() drops every watch and closes the
\* Events channel; Stop returns.
StopCloseWatcher ==
    /\ stopPc = "doneClosed"
    /\ osClosed' = TRUE
    /\ osWatches' = {}
    /\ stopPc' = "stopped"
    /\ mainPc' = "stopped"
    /\ UNCHANGED <<configVars, fs, fsBudget, watchedDirs, addCalls, rawq, startLog,
                   initialFiles, pumpPc, pumpSend, consPc, serverVars, faults,
                   pumpLog, hist, ctxDone, fwDone, eventsClosed, orderVars>>
    /\ UNCHANGED lockVars
    /\ UNCHANGED procVars

\* Faulty variant of PumpExit: the blocking send has no case on which it gives up.
PumpExit_IdleOnly ==
    /\ pumpPc = "idle" /\ (ctxDone \/ fwDone \/ osClosed)
    /\ pumpPc' = "exited"
    /\ pumpSend' = NoEvent
    /\ UNCHANGED <<configVars, fs, fsBudget, watcherVars, rawq, mainPc, startLog,
                   initialFiles, consPc, serverVars, faults, pumpLog, hist,
                   lifeVars, orderVars>>
    /\ UNCHANGED lockVars
    /\ UNCHANGED procVars

\* eventLoop returns: from its select on ctx.Done, fw.done and the closed
\* Events channel, or from handleFsEvent's select on the send and fw.done.
PumpExit ==
    /\ \/ pumpPc = "idle" /\ (ctxDone \/ fwDone \/ osClosed)
       \/ pumpPc = "sending" /\ fwDone
    /\ pumpPc' = "exited"
    /\ pumpSend' = NoEvent
    /\ UNCHANGED <<configVars, fs, fsBudget, watcherVars, rawq, mainPc, startLog,
                   initialFiles, consPc, serverVars, faults, pumpLog, hist,
                   lifeVars, orderVars>>
    /\ UNCHANGED lockVars
    /\ UNCHANGED procVars

\* processFileEvents returns: from its select on ctx.Done and the closed
\* events channel.
ConsumerExit ==
    /\ consPc = "run"
    /\ ctxDone \/ eventsClosed
    /\ consPc' = "exited"
    /\ UNCHANGED <<configVars, fs, fsBudget, watcherVars, rawq, mainPc, startLog,
                   initialFiles, pumpPc, pumpSend, serverVars, faults, pumpLog,
                   hist, lifeVars, orderVars>>
    /\ UNCHANGED lockVars
    /\ UNCHANGED procVars

ConsumerHandleLogged == ConsumerStep(TRUE)

NextRun ==
    \/ \E p \in RunPaths : FsCreate(p)
    \/ \E p \in RunPaths : FsWrite(p)
    \/ \E p \in RunPaths : FsRemove(p)
    \/ \E sub \in SUBSET {pG, pS} : FsMoveIn(pD, sub)
    \/ PumpHandleLogged
    \/ ConsumerHandleLogged
    \/ StopCancel
    \/ StopCloseDone
    \/ StopCloseWatcher
    \/ PumpExit
    \/ ConsumerExit

RunSpec == InitRun /\ [][NextRun]_vars

\* Stop runs to its end, and a goroutine whose select has a ready case takes
\* one.
RunFairSpec ==
    /\ RunSpec
    /\ WF_vars(StopCloseDone)
    /\ WF_vars(StopCloseWatcher)
    /\ WF_vars(PumpExit)
    /\ WF_vars(ConsumerExit)

IsPrefix(a, b) == Len(a) <= Len(b) /\ SubSeq(b, 1, Len(a)) = a

\* The notifications the OS source has delivered so far, in its order: those
\* the pump has read, then those still waiting in the Events channel.
Delivered == readLog \o rawq

-----------------------------------------------------------------------------
\* C11: FileEvents are handled in the order the OS source delivered their
\* notifications.  Every step leaves the delivered sequence as it was or
\* appends to it, so the pump reads notifications in delivery order; and every
\* FileEvent handleFileEvent runs on is the one made from the notification
\* the pump read last (same path, the type of its op bits), which is a later
\* notification than that of any FileEvent handled before.  Hence for every
\* path p no FileEvent of p overtakes an earlier one of p.
C11_PerPathOrder ==
    [][ /\ IsPrefix(Delivered, Delivered')
        /\ handled' # handled =>
              LET e == handled'[Len(handled')]
              IN  /\ handled' = Append(handled, e)
                  /\ e.n = Len(readLog) /\ e.n >= 1
                  /\ readLog[e.n].Name = e.Path
                  /\ EventTypeOf(readLog[e.n].Op) = e.EventType
                  /\ \A i \in DOMAIN handled : handled[i].n < e.n ]_vars

\* Two FileEvents of one path were handled, a Create and then a Modify.
C11_Witness ==
    \E i, j \in DOMAIN handled :
        /\ i < j
        /\ handled[i].Path = handled[j].Path
        /\ handled[i].EventType = EventCreate
        /\ handled[j].EventType = EventModify

-----------------------------------------------------------------------------
\* C12 as claimed: one cancellation signal (the context) is observed by every
\* blocking select of both loops: once it is raised, the select a loop is
\* blocked in has its cancellation case ready, the pump's blocking send of a
\* FileEvent included.
C12_SingleSignalAsClaimed ==
    ctxDone =>
        /\ pumpPc = "idle" => ENABLED PumpExit
        /\ pumpPc = "sending" => ENABLED PumpExit
        /\ consPc = "run" => ENABLED ConsumerExit

\* C12: Stop raises two signals, the context and then fw.done.  The pump's
\* wait for notifications and the consumer's wait observe the context, the
\* pump's blocking send observes fw.done only.  Once the context is cancelled
\* both loops eventually return, Stop running to its end, also where the
\* pump is blocked sending and the consumer has returned already.
C12_BothTerminate ==
    /\ [](fwDone => ctxDone)
    /\ ctxDone ~> (pumpPc = "exited" /\ consPc = "exited")

\* Both loops have returned, and the FileEvent the pump was sending last was
\* never received: the pump gave up a blocked send.
C12_Witness ==
    /\ pumpPc = "exited" /\ consPc = "exited"
    /\ pumpLog.sent # NoEvent
    /\ \A i \in DOMAIN handled : handled[i].n # Len(readLog)

-----------------------------------------------------------------------------
\* C13: on Stop the context is cancelled first, then the OS watch handle is
\* closed, afterwards the FileEvent channel (fw.events) is closed, and the
\* consumer returns upon observing that fw.events is closed: the OS handle is
\* closed only under a cancelled context, fw.events is closed once Stop has
\* returned and not before the OS handle, and a consumer that has returned
\* found fw.events closed.
C13_StoppingOrder ==
    /\ osClosed => ctxDone
    /\ eventsClosed => osClosed
    /\ stopPc = "stopped" => eventsClosed
    /\ consPc = "exited" => eventsClosed

-----------------------------------------------------------------------------
(* The synchronizer's and the watcher's calls statement by statement, with *)
(* their mutexes: handleFileEvent's calls on the consumer goroutine, and   *)
(* startWatching / stopWatching on the pump goroutine, for any path.       *)

WatchPaths == {pD, pS}

\* handleFileEvent calls registerFile, updateFile or unregisterFile.
SyncBegin(op, path) ==
    /\ syncProc.pc = "idle"
    /\ syncProc' = [pc |-> "start", op |-> op, path |-> path]
    /\ UNCHANGED <<configVars, fs, fsBudget, watcherVars, rawq, mainPc, startLog,
                   initialFiles, pumpPc, pumpSend, consPc, serverVars, faults,
                   pumpLog, hist, lifeVars, orderVars, mu, fwMu, watchProc>>
    /\ UNCHANGED procVars

\* updateFile: s.mu.RLock().
UpdateRLock ==
    /\ syncProc.pc = "start" /\ syncProc.op = "update"
    /\ mu = "free"
    /\ mu' = "rlocked"
    /\ syncProc' = [syncProc EXCEPT !.pc = "reading"]
    /\ UNCHANGED <<configVars, fs, fsBudget, watcherVars, rawq, mainPc, startLog,
                   initialFiles, pumpPc, pumpSend, consPc, serverVars, faults,
                   pumpLog, hist, lifeVars, orderVars, fwMu, watchProc>>
    /\ UNCHANGED procVars

\* updateFile: isRegistered := s.registeredFiles[path]; s.mu.RUnlock(); then
\* return nil, or go on to registerFile(path).
UpdateRUnlock ==
    /\ syncProc.pc = "reading"
    /\ mu' = "free"
    /\ syncProc' = IF syncProc.path \in registeredFiles THEN NoProc
                   ELSE [syncProc EXCEPT !.pc = "start", !.op = "register"]
    /\ UNCHANGED <<configVars, fs, fsBudget, watcherVars, rawq, mainPc, startLog,
                   initialFiles, pumpPc, pumpSend, consPc, serverVars, faults,
                   pumpLog, hist, lifeVars, orderVars, fwMu, watchProc>>
    /\ UNCHANGED procVars

\* registerFile / unregisterFile: s.mu.Lock(); defer s.mu.Unlock().
SyncLock ==
    /\ syncProc.pc = "start" /\ syncProc.op \in {"register", "unregister"}
    /\ mu = "free"
    /\ mu' = "locked"
    /\ syncProc' = [syncProc EXCEPT !.pc = "locked"]
    /\ UNCHANGED <<configVars, fs, fsBudget, watcherVars, rawq, mainPc, startLog,
                   initialFiles, pumpPc, pumpSend, consPc, serverVars, faults,
                   pumpLog, hist, lifeVars, orderVars, fwMu, watchProc>>
    /\ UNCHANGED procVars

\* registerFile / unregisterFile: the skip test; either return (the deferred
\* Unlock runs) or enter the Registry call.
SyncCheck ==
    /\ syncProc.pc = "locked"
    /\ LET skip == IF syncProc.op = "register"
                   THEN syncProc.path \in registeredFiles
                   ELSE syncProc.path \notin registeredFiles
       IN  IF skip
           THEN mu' = "free" /\ syncProc' = NoProc
           ELSE mu' = mu /\ syncProc' = [syncProc EXCEPT !.pc = "calling"]
    /\ UNCHANGED <<configVars, fs, fsBudget, watcherVars, rawq, mainPc, startLog,
                   initialFiles, pumpPc, pumpSend, consPc, serverVars, faults,
                   pumpLog, hist, lifeVars, orderVars, fwMu, watchProc>>
    /\ UNCHANGED procVars

\* RegisterFileResource / DeregisterFileResource returns; the table is
\* updated on success; the deferred Unlock runs.
SyncReturn ==
    /\ syncProc.pc = "calling"
    /\ \E ok \in BOOLEAN :
          LET r == IF syncProc.op = "register"
                   THEN registerFile(Server, syncProc.path, ok)
                   ELSE unregisterFile(Server, syncProc.path, ok)
          IN  /\ registeredFiles' = r.s.registeredFiles
              /\ registry' = r.s.registry
              /\ faults' = faults \cup (IF r.err THEN {"registry"} ELSE {})
    /\ mu' = "free"
    /\ syncProc' = NoProc
    /\ UNCHANGED <<configVars, fs, fsBudget, watcherVars, rawq, mainPc, startLog,
                   initialFiles, pumpPc, pumpSend, consPc, pumpLog, hist,
                   lifeVars, orderVars, fwMu, watchProc>>
    /\ UNCHANGED procVars

\* The pump calls startWatching or stopWatching.
WatchBegin(op, path) ==
    /\ watchProc.pc = "idle"
    /\ watchProc' = [pc |-> "start", op |-> op, path |-> path]
    /\ UNCHANGED <<configVars, fs, fsBudget, watcherVars, rawq, mainPc, startLog,
                   initialFiles, pumpPc, pumpSend, consPc, serverVars, faults,
                   pumpLog, hist, lifeVars, orderVars, mu, fwMu, syncProc>>
    /\ UNCHANGED procVars

\* startWatching / stopWatching: fw.mu.Lock(); defer fw.mu.Unlock().
WatchLock ==
    /\ watchProc.pc = "start"
    /\ fwMu = "free"
    /\ fwMu' = "locked"
    /\ watchProc' = [watchProc EXCEPT !.pc = "locked"]
    /\ UNCHANGED <<configVars, fs, fsBudget, watcherVars, rawq, mainPc, startLog,
                   initialFiles, pumpPc, pumpSend, consPc, serverVars, faults,
                   pumpLog, hist, lifeVars, orderVars, mu, syncProc>>
    /\ UNCHANGED procVars

\* startWatching / stopWatching: the watchedDirs test; either return or
\* enter fsnotify's Add / Remove.
WatchCheck ==
    /\ watchProc.pc = "locked"
    /\ LET skip == IF watchProc.op = "start"
                   THEN watchProc.path \in watchedDirs
                   ELSE watchProc.path \notin watchedDirs
       IN  IF skip
           THEN fwMu' = "free" /\ watchProc' = NoProc
           ELSE fwMu' = fwMu /\ watchProc' = [watchProc EXCEPT !.pc = "calling"]
    /\ UNCHANGED <<configVars, fs, fsBudget, watcherVars, rawq, mainPc, startLog,
                   initialFiles, pumpPc, pumpSend, consPc, serverVars, faults,
                   pumpLog, hist, lifeVars, orderVars, mu, syncProc>>
    /\ UNCHANGED procVars

\* fsnotify's Add / Remove returns; watchedDirs is updated; the deferred
\* Unlock runs.
WatchReturn ==
    /\ watchProc.pc = "calling"
    /\ \E fault \in {NoFault, [kind |-> "add", path |-> watchProc.path]} :
          LET w == IF watchProc.op = "start"
                   THEN startWatching(WatcherState, watchProc.path, fault).w
                   ELSE stopWatching(WatcherState, watchProc.path)
          IN  /\ watchedDirs' = w.watchedDirs
              /\ osWatches' = w.osWatches
              /\ addCalls' = w.addCalls
              /\ faults' = faults \cup (IF watchProc.op = "start"
                                        THEN FaultKind(fault) ELSE {})
    /\ fwMu' = "free"
    /\ watchProc' = NoProc
    /\ UNCHANGED <<configVars, fs, fsBudget, rawq, mainPc, startLog,
                   initialFiles, pumpPc, pumpSend, consPc, serverVars, pumpLog,
                   hist, lifeVars, orderVars, mu, syncProc>>
    /\ UNCHANGED procVars

NextLock ==
    \/ \E op \in {"register", "update", "unregister"}, p \in SyncPaths : SyncBegin(op, p)
    \/ UpdateRLock
    \/ UpdateRUnlock
    \/ SyncLock
    \/ SyncCheck
    \/ SyncReturn
    \/ \E op \in {"start", "stop"}, d \in WatchPaths : WatchBegin(op, d)
    \/ WatchLock
    \/ WatchCheck
    \/ WatchReturn

LockSpec == InitSync /\ [][NextLock]_vars

\* A Registry call, or a watch call on the OS source, is under way.
RegistryCallInProgress == syncProc.pc = "calling"
OsWatchCallInProgress == watchProc.pc = "calling"

-----------------------------------------------------------------------------
\* C14: no lock is held across a blocking call: in no reachable state is
\* MCPServer.mu held while a Registry.Register or Registry.Deregister call is
\* under way, and in no reachable state is FileWatcher.mu held while an Add
\* or Remove call on the OS source is under way.
C14_NoLockAcrossCall ==
    /\ ~(RegistryCallInProgress /\ mu # "free")
    /\ ~(OsWatchCallInProgress /\ fwMu # "free")

-----------------------------------------------------------------------------
(* The running program's view of an entry *)

\* ShouldIgnore and ShouldIgnoreDir of every entry under every matcher,
\* evaluated once.
IgnoreTable ==
    [c \in Configs |->
        [p \in PathIds |->
            [file |-> ShouldIgnore(c, AbsPathIn(c.workspacePath, p)),
             dir  |-> ShouldIgnoreDir(c, AbsPathIn(c.workspacePath, p))]]]

Ignored(p)    == IgnoreTable[Matcher][p].file
IgnoredDir(p) == IgnoreTable[Matcher][p].dir

Sending(p) == pumpPc = "sending" /\ pumpSend.Path = p

\* No FileEvent of p is on the event stream, and no watch was asked for p.
Unobserved(p) ==
    /\ ~Sending(p)
    /\ p \notin watchedDirs
    /\ p \notin addCalls
    /\ p \notin osWatches

\* The files that exist, are not ignored, and lie under no ignored directory.
Qualifies(p) ==
    /\ p \in fs \cap FileIds
    /\ ~Ignored(p)
    /\ \A k \in 1 .. (Len(p) - 1) : ~IgnoredDir(SubSeq(p, 1, k))

LiveFiles == {p \in PathIds : Qualifies(p)}

\* The server runs, every notification has been handled and every FileEvent
\* consumed.
Quiescent == mainPc = "running" /\ rawq = <<>> /\ pumpPc = "idle"

-----------------------------------------------------------------------------
\* C3 as claimed: for every path p with ShouldIgnore(p), the workspace root
\* included, no FileEvent of p is ever sent and no watch is ever added for p.
C3_IgnoreSoundAsClaimed ==
    \A p \in PathIds : Ignored(p) => Unobserved(p)

\* C3, amended: for every path p other than the workspace root with
\* ShouldIgnore(p), no FileEvent of p is ever sent and no watch is ever added
\* for p (p is never in watchedDirs, Add is never called for p).  The root is
\* watched even when its base name begins with a dot.
C3_IgnoreSound ==
    \A p \in PathIds \ {Root} : Ignored(p) => Unobserved(p)

\* The scan has passed over an ignored directory and an ignored file that
\* exist, every notification the changes since then raised has been handled,
\* and the directory beside them is watched.
C3_Witness ==
    /\ Quiescent
    /\ fsBudget = 0
    /\ hasGitIgnore
    /\ {pD, pS, pEnv, pNode} \subseteq fs
    /\ Ignored(pD) /\ Ignored(pEnv)
    /\ watchedDirs = {Root, pNode}

\* C4: once the server runs, nothing has failed, and every notification has
\* been handled and every FileEvent consumed, registeredFiles holds exactly
\* the non-ignored files that exist under non-ignored directories.
C4_InSyncWhenQuiet ==
    (Quiescent /\ faults = {}) => registeredFiles = LiveFiles

\* C5: when the pump handles a Remove or Rename notification of a path that
\* does not stat as a directory any more, or that is marked watched, the path
\* is not in watchedDirs afterwards.
C5_RemoveUnwatches ==
    [][(/\ pumpPc = "idle"
        /\ rawq # <<>>
        /\ rawq' = Tail(rawq)
        /\ Head(rawq).Op \cap {"Remove", "Rename"} # {}
        /\ (~IsDir(fs, Head(rawq).Name) \/ Head(rawq).Name \in watchedDirs))
       => Head(rawq).Name \notin watchedDirs']_vars

\* C7: without a .gitignore, ShouldIgnoreDir is true of the directory
\* node_modules under the root, no watch is ever added for it, and no
\* FileEvent is sent for a file inside it.
C7_NodeModulesIgnored ==
    ~hasGitIgnore =>
        /\ (mainPc = "running" /\ pNode \in fs) => IgnoredDir(pNode)
        /\ pNode \notin watchedDirs
        /\ pNode \notin addCalls
        /\ ~Sending(pM)

\* C9: the listing pass runs after the initial scan has completed, and the
\* listed paths have all gone through onCreate before the event loop starts.
C9_ListAfterScan ==
    /\ \A i \in DOMAIN startLog :
          startLog[i] = "list" => \E j \in 1 .. (i - 1) : startLog[j] = "scan"
    /\ \A i \in DOMAIN startLog :
          startLog[i] = "loop" => \E j \in 1 .. (i - 1) : startLog[j] = "list"
    /\ pumpPc # "off" => \E i \in DOMAIN startLog : startLog[i] = "loop"

\* GetInitialFiles has just returned: the tree is the one it walked.
JustListed == mainPc = "registered" /\ fsBudget = MaxFsOps

Listed == SeqToSet(initialFiles)

\* C10 as claimed: the listing holds a path if and only if it is a file that
\* is not ignored and has no ignored directory above it; no dotfile is listed
\* or registered by the start-up pass.
C10_ListingAsClaimed ==
    /\ JustListed => Listed = LiveFiles
    /\ pEnv \notin Listed
    /\ mainPc = "registered" => registeredFiles \subseteq Listed

\* C10, amended: the listing holds only files that are not ignored and have
\* no ignored directory above them, and holds every such file when the walk
\* met no error (an entry the walk reports with an error is skipped, with
\* all below it); no dotfile is listed or registered by the start-up pass.
C10_Listing ==
    /\ JustListed => Listed \subseteq LiveFiles
    /\ (JustListed /\ "walk" \notin faults) => Listed = LiveFiles
    /\ pEnv \notin Listed
    /\ mainPc = "registered" => registeredFiles \subseteq Listed

\* The listing of a tree with a dotfile, a file under an ignored directory
\* and a plain file: only the plain file is listed.
C10_Witness ==
    /\ JustListed
    /\ faults = {}
    /\ hasGitIgnore
    /\ {pEnv, pG, pF, pM} \subseteq fs
    /\ ~Ignored(pG) /\ IgnoredDir(pD)
    /\ Listed = {pF}
    /\ registeredFiles = {pF}

-----------------------------------------------------------------------------
\* C15: ShouldIgnoreDir of the workspace root is false under every workspace
\* configuration, also where ShouldIgnore of the root is true (its base name
\* begins with ".", or the .gitignore matches its relative form "."); so the
\* initial scan does not prune the root: a server that runs watches the root,
\* and a scan that failed had asked for the root's watch unless the walk
\* itself reported an error.
C15_RootExempt ==
    /\ ~ShouldIgnoreDir(Matcher, workspacePath)
    /\ mainPc = "running" => Root \in watchedDirs /\ Root \in addCalls
    /\ mainPc = "failed" => Root \in addCalls \/ "walk" \in faults

\* The server runs and watches a root that ShouldIgnore would ignore.
C15_Witness ==
    /\ mainPc = "running"
    /\ Ignored(Root)
    /\ Root \in watchedDirs
    /\ Root \in osWatches

-----------------------------------------------------------------------------
\* C16: watchedDirs and registeredFiles are empty before Start, and once Stop
\* has returned both are empty again and the OS watch is closed.
C16_Teardown ==
    /\ mainPc = "new" => watchedDirs = {} /\ registeredFiles = {}
    /\ stopPc = "stopped" =>
          /\ watchedDirs = {}
          /\ registeredFiles = {}
          /\ osClosed

-----------------------------------------------------------------------------
\* The directories of the tree reachable from the root through directories
\* none of which ShouldIgnoreDir ignores, the root included.
WatchableDirs(tree) ==
    {d \in DirIds : /\ IsDir(tree, d)
                    /\ \A k \in 1 .. Len(d) : ~IgnoredDir(SubSeq(d, 1, k))}

\* The entries the initial scan's walk reaches: those whose directory is
\* watchable.
ScanReaches(tree, p) ==
    /\ Exists(tree, p)
    /\ p = Root \/ Parent(p) \in WatchableDirs(tree)

\* The failure lies on the scan's way: the walk reports an error for an entry
\* it reaches, or Add fails for a directory the scan asks to watch.
ScanMeets(tree, fault) ==
    \/ fault.kind = "walk" /\ ScanReaches(tree, fault.path)
    \/ fault.kind = "add" /\ fault.path \in WatchableDirs(tree)

\* C17: an initial scan that returns without error leaves in watchedDirs
\* exactly the directories reachable from the root through directories none
\* of which is ignored by ShouldIgnoreDir: each had Add called and holds an OS
\* watch, and no directory of a pruned subtree is in the set.  A failure of a
\* walk entry or of an Add on the scan's way makes the scan return the error,
\* and after a failed scan neither eventLoop nor processFileEvents is ever
\* started.
C17_ScanWatches ==
    [][ /\ (mainPc = "registered" /\ mainPc' = "running") =>
              LET dirs == WatchableDirs(fs)
              IN  /\ watchedDirs' = dirs
                  /\ addCalls' = dirs
                  /\ osWatches' = dirs
                  /\ faults' = faults =>
                        \A fault \in Faults :
                            ScanMeets(fs, fault)
                              <=> scanWorkspace(Matcher, fs, WatcherState, fault).err
        /\ (mainPc = "registered" /\ mainPc' = "failed") =>
              /\ watchedDirs' \subseteq WatchableDirs(fs)
              /\ faults' \cap {"walk", "add"} # {}
        /\ mainPc' = "failed" =>
              pumpPc' = "off" /\ consPc' = "off" /\ rawq' = <<>> ]_vars

\* The scan went through on a tree with a pruned directory that holds a
\* directory not ignored itself: the first is not watched, nor is the second.
C17_Witness ==
    /\ mainPc = "running"
    /\ fsBudget = MaxFsOps
    /\ pD \in fs /\ IgnoredDir(pD) /\ pD \notin watchedDirs
    /\ pS \in fs /\ ~IgnoredDir(pS) /\ pS \notin watchedDirs
    /\ pNode \in watchedDirs

-----------------------------------------------------------------------------
\* The pump has just handled a Create notification of a path that is not
\* ignored and stats as a directory.
HandledNewDir ==
    /\ readLog' # readLog
    /\ "Create" \in pumpLog'.Op
    /\ IsDir(fs, pumpLog'.Name)
    /\ ~Ignored(pumpLog'.Name)

\* The directories at or below `name` reachable from it without passing
\* through a directory ShouldIgnoreDir ignores.
WatchableBelow(tree, name) ==
    {d \in DirIds : /\ Under(d, name)
                    /\ IsDir(tree, d)
                    /\ \A k \in (Len(name) + 1) .. Len(d) : ~IgnoredDir(SubSeq(d, 1, k))}

\* Those of them a failure keeps from being watched: what lies below an
\* entry the walk reports with an error, and a sub-directory Add fails for.
HitBy(fault, name) ==
    {d \in DirIds \ {name} : (fault.kind = "walk" /\ Under(d, fault.path))
                              \/ (fault.kind = "add" /\ d = fault.path)}

\* C18 as claimed: after the pump has handled a Create notification of a
\* non-ignored path that stats as a directory, that directory is in
\* watchedDirs, and so is every directory below it reachable without passing
\* through an ignored directory, but for those a per-entry error of the
\* sub-walk hit; no directory of a pruned subtree is; the pump runs on.
C18_DynamicDirAsClaimed ==
    [][ HandledNewDir =>
          LET name == pumpLog'.Name
              fault == pumpLog'.fault
          IN  /\ name \in watchedDirs'
              /\ (WatchableBelow(fs, name) \ HitBy(fault, name)) \subseteq watchedDirs'
              /\ \A d \in DirIds :
                    Under(d, name) /\ d \notin WatchableBelow(fs, name) => d \notin watchedDirs'
              /\ pumpPc' = "idle" ]_vars

\* C18: as above when Add succeeds for the new directory itself; when it
\* fails, the pump logs the error, watches neither the directory nor anything
\* below it, and runs on.  In either case watchedDirs gains exactly the
\* directories named, and loses none.
C18_DynamicDir ==
    [][ HandledNewDir =>
          LET name == pumpLog'.Name
              fault == pumpLog'.fault
              gained == IF AddErr(fault, name) /\ name \notin watchedDirs THEN {}
                        ELSE WatchableBelow(fs, name) \ HitBy(fault, name)
          IN  /\ watchedDirs' = watchedDirs \cup gained
              /\ \A d \in DirIds :
                    Under(d, name) /\ d \notin WatchableBelow(fs, name) => d \notin watchedDirs'
              /\ pumpPc' = "idle" ]_vars

\* The pump handled the Create of a directory that holds a file and a
\* sub-directory; the walk reported an error for the file, and the
\* sub-directory is watched all the same.
C18_Witness ==
    /\ pumpLog.Name = pD /\ "Create" \in pumpLog.Op
    /\ pumpLog.fault = [kind |-> "walk", path |-> pG]
    /\ {pD, pG, pS} \subseteq fs
    /\ {pD, pS} \subseteq watchedDirs
    /\ pumpPc = "idle"

-----------------------------------------------------------------------------
\* C19: a Registry call that fails leaves the table as the call found it: the
\* path of a failed Register stays absent, the path of a failed Deregister
\* stays present, no other entry changes.  handleFileEvent returns and the
\* consumer takes the next event; nothing calls the Registry for the path in
\* between, and the next Create or Modify event of the path (the next Delete
\* event after a failed Deregister) makes the Registry call again.
C19_FailureHandling ==
    /\ (hist # <<>> /\ Last.err) =>
          /\ Last.call \in {"Register", "Deregister"}
          /\ Last.after = TableBeforeLast
          /\ registeredFiles = Last.after
          /\ Last.call = "Register" => Last.path \notin registeredFiles
          /\ Last.call = "Deregister" => Last.path \in registeredFiles
          /\ \A p \in SyncPaths : ENABLED OnCreate(p)
    /\ (TwoCalls /\ Prev.err /\ Last.path = Prev.path) =>
          /\ Last.was = (Prev.call = "Deregister")
          /\ (Prev.call = "Register" /\ Last.op \in {EventCreate, EventModify})
                => Last.call = "Register"
          /\ (Prev.call = "Deregister" /\ Last.op = EventDelete)
                => Last.call = "Deregister"

\* A Deregister failed and the next Delete event of the path made the call
\* again, with success; before that a Register can have failed the same way.
C19_Witness ==
    /\ TwoCalls
    /\ Prev.err /\ Prev.call = "Deregister"
    /\ Last.path = Prev.path /\ Last.op = EventDelete
    /\ Last.call = "Deregister" /\ ~Last.err
    /\ Last.path \notin registeredFiles
    /\ "registry" \in faults

-----------------------------------------------------------------------------
\* C20: files that are inside a directory at the moment it becomes watched
\* dynamically get registered.  On a server that started on a workspace
\* without sub-directories, met no failure and is not stopping: once the
\* Create notification of a directory has been handled and nothing is left
\* to handle, every non-ignored file inside a watched sub-directory is in
\* registeredFiles.
C20_PopulatedDirRegistered ==
    (Quiescent /\ stopPc = "none" /\ consPc = "run" /\ faults = {}) =>
        \A p \in LiveFiles :
            (Parent(p) # Root /\ Parent(p) \in watchedDirs /\ Parent(p) \in osWatches)
              => p \in registeredFiles

-----------------------------------------------------------------------------
\* C21: FileEvents and registrations concern files only: no FileEvent is sent
\* or handled whose path is that of a directory, and no directory path is in
\* registeredFiles, also when a directory is removed, or is created and
\* removed again before the pump handles its Create notification.
C21_FilesOnly ==
    /\ pumpSend # NoEvent => pumpSend.Path \in FileIds
    /\ \A i \in DOMAIN handled : handled[i].Path \in FileIds
    /\ registeredFiles \subseteq FileIds

-----------------------------------------------------------------------------
(* The process around the server: main, its signal-handling goroutine with *)
(* cleanup, and monitorParentProcess, from the moment Start has returned.  *)
(* A signal and the parent's death come at any moment, in any order.       *)

\* The process runs: main has not returned and no goroutine has panicked.
Alive == mainPc # "exited" /\ ~panicked

serverAndFsVars == <<configVars, fs, fsBudget, watcherVars, rawq, startLog,
                     initialFiles, pumpPc, pumpSend, consPc, serverVars, faults,
                     pumpLog, hist, lifeVars, orderVars, lockVars>>

\* main: go monitorParentProcess(done).
MainSpawnMonitor ==
    /\ Alive
    /\ mainPc = "running"
    /\ monPc = "off"
    /\ monPc' = "run"
    /\ UNCHANGED <<serverAndFsVars, mainPc, sigPending, parentDead, procDone,
                   panicked, sigPc, stopCalls>>

\* main: go func() { select { case sig := <-sigChan: ...; case <-done: } }().
MainSpawnSignal ==
    /\ Alive
    /\ monPc # "off"
    /\ sigPc = "off"
    /\ sigPc' = "wait"
    /\ UNCHANGED <<serverAndFsVars, mainPc, sigPending, parentDead, procDone,
                   panicked, monPc, stopCalls>>

\* SIGINT or SIGTERM is delivered into sigChan (registered before the server
\* is created, buffer of one).
SignalArrives ==
    /\ Alive
    /\ ~sigPending
    /\ sigPc \in {"off", "wait"}
    /\ sigPending' = TRUE
    /\ UNCHANGED <<serverAndFsVars, mainPc, parentDead, procDone, panicked,
                   sigPc, monPc, stopCalls>>

\* The parent process terminates: monitorParentProcess' test on os.Getppid
\* holds from now on.
ParentDies ==
    /\ Alive
    /\ ~parentDead
    /\ parentDead' = TRUE
    /\ UNCHANGED <<serverAndFsVars, mainPc, sigPending, procDone, panicked,
                   sigPc, monPc, stopCalls>>

\* The signal goroutine's select takes the signal and calls cleanup, which
\* calls s.Stop().
SigTake ==
    /\ Alive
    /\ sigPc = "wait"
    /\ sigPending
    /\ sigPending' = FALSE
    /\ sigPc' = "stopping"
    /\ stopCalls' = stopCalls + 1
    /\ UNCHANGED <<serverAndFsVars, mainPc, parentDead, procDone, panicked, monPc>>

\* The signal goroutine's select takes the closed done channel and returns.
SigSeesDone ==
    /\ Alive
    /\ sigPc = "wait"
    /\ procDone
    /\ sigPc' = "returned"
    /\ UNCHANGED <<serverAndFsVars, mainPc, sigPending, parentDead, procDone,
                   panicked, monPc, stopCalls>>

\* cleanup: s.Stop(), step by step.
CleanupStop ==
    /\ Alive
    /\ sigPc = "stopping"
    /\ StopCancel \/ StopCloseDone \/ StopCloseWatcher

\* cleanup: select { case <-done: default: ... } after Stop has returned.
CleanupPoll ==
    /\ Alive
    /\ sigPc = "stopping"
    /\ stopPc = "stopped"
    /\ sigPc' = IF procDone THEN "returned" ELSE "closing"
    /\ UNCHANGED <<serverAndFsVars, mainPc, sigPending, parentDead, procDone,
                   panicked, monPc, stopCalls>>

\* close of main's done channel: a channel that is closed already panics.
CloseDone ==
    /\ procDone' = TRUE
    /\ panicked' = (panicked \/ procDone)

\* cleanup: close(done) in the default case.
CleanupClose ==
    /\ Alive
    /\ sigPc = "closing"
    /\ CloseDone
    /\ sigPc' = "returned"
    /\ UNCHANGED <<serverAndFsVars, mainPc, sigPending, parentDead, monPc, stopCalls>>

\* monitorParentProcess: the ticker case finds the parent gone: close(done)
\* and return.  The select takes this case also when done is closed already
\* and both cases are ready.
MonitorTick ==
    /\ Alive
    /\ monPc = "run"
    /\ parentDead
    /\ CloseDone
    /\ monPc' = "returned"
    /\ UNCHANGED <<serverAndFsVars, mainPc, sigPending, parentDead, sigPc, stopCalls>>

\* monitorParentProcess: the select takes the closed done channel and returns.
MonitorSeesDone ==
    /\ Alive
    /\ monPc = "run"
    /\ procDone
    /\ monPc' = "returned"
    /\ UNCHANGED <<serverAndFsVars, mainPc, sigPending, parentDead, procDone,
                   panicked, sigPc, stopCalls>>

\* main: <-done returns; main returns and the process ends.
MainExit ==
    /\ Alive
    /\ sigPc # "off"
    /\ procDone
    /\ mainPc' = "exited"
    /\ UNCHANGED <<serverAndFsVars, sigPending, parentDead, procDone, panicked,
                   sigPc, monPc, stopCalls>>

NextShutdown ==
    \/ MainSpawnMonitor
    \/ MainSpawnSignal
    \/ SignalArrives
    \/ ParentDies
    \/ SigTake
    \/ SigSeesDone
    \/ CleanupStop
    \/ CleanupPoll
    \/ CleanupClose
    \/ MonitorTick
    \/ MonitorSeesDone
    \/ MainExit
    \/ (Alive /\ PumpExit)
    \/ (Alive /\ ConsumerExit)

ShutdownSpec == InitRun /\ [][NextShutdown]_vars

-----------------------------------------------------------------------------
\* C22: process shutdown is free of races: in every interleaving of the
\* signal-handling goroutine (cleanup) and the parent-process monitor, main's
\* done channel is closed at most once (no close of a closed channel, so no
\* panic) and MCPServer.Stop, with it FileWatcher.Stop, runs at most once.
C22_ShutdownRaceFree ==
    /\ ~panicked
    /\ stopCalls <= 1

====
